---- MODULE Spec2Model ----
(***************************************************************************)
(* A model of the TerminalEmulator class of terminal_emulator.cpp (the     *)
(* first translation unit of the file, lines 1-348): raw-mode set-up, the  *)
(* PTY/child life cycle, the poll loop, the per-byte input processor with  *)
(* its line buffer, history and escape accumulator, the signal handler,    *)
(* and cleanup.                                                            *)
(*                                                                         *)
(* Bytes are their ASCII codes; strings are sequences of bytes.            *)
(* history_index_ is the C++ 0-based index; history_[k] of the code is     *)
(* history_[k + 1] here.                                                   *)
(***************************************************************************)
EXTENDS Integers, Sequences, FiniteSets, TLC

(***************************************************************************)
(* Bounds of the model (not program constants).                           *)
(***************************************************************************)
\* characters the user has on the line and in History together (a line
\* spelling a prefix of "exit" may always grow, but is not submitted beyond
\* the bound)
MaxChars == 2
\* number of History entries the user submits
MaxHist == 2
\* number of bytes one read() of the terminal returns
MaxRead == 2
\* number of bytes the PTY master takes between two forwarded newlines
MaxLine == 8

(***************************************************************************)
(* Bytes.                                                                  *)
(***************************************************************************)
CtrlC == 3
CtrlD == 4
BS == 8
LF == 10
CR == 13
CtrlZ == 26
ESC == 27
SP == 32
Dollar == 36
UpKey == 65
DownKey == 66
KeyK == 75
LBracket == 91
KeyE == 101
KeyI == 105
KeyO == 111
KeyT == 116
KeyX == 120
DEL == 127

\* the literal compared against in handleEnter
ExitLine == <<KeyE, KeyX, KeyI, KeyT>>

\* the bytes the user types
Keys == {CtrlC, CtrlD, CtrlZ, DEL, ESC, LBracket, UpKey, DownKey, CR, LF,
         KeyE, KeyX, KeyI, KeyT}

\* what read(master_fd_) delivers when the child has written something
ShellChunk == <<KeyO>>

\* descriptors and process ids
NoFd == -1
MasterFd == 3
NoPid == -1
ChildPid == 100

VARIABLES
    pc,               \* position of the main thread
    term_mode,        \* line discipline of the controlling terminal
    restore_count,    \* tcsetattr(original_termios_) calls made by restoreTerminal
    exit_code,        \* value returned by main, -1 while running
    poll_error,       \* processIO threw "Poll error" and run caught it
    master_fd_,       \* member: PTY master descriptor
    child_pid_,       \* member: child process id
    is_running_,      \* member: loop flag
    instance_,        \* static member: registered session
    pty_open,         \* kernel: the master descriptor is open
    child_state,      \* kernel: "none", "running", "zombie", "reaped"
    input_buffer_,    \* member: line buffer
    history_,         \* member: History
    history_index_,   \* member: recall cursor
    escape_sequence,  \* function-local static of processInput
    master_line,      \* kernel: line the PTY master holds (TracedSpec records it)
    revents_in,       \* processIO: fds[0].revents & POLLIN after the last poll
    bytes_read,       \* readUserInput: result of read()
    i,                \* readUserInput: loop index
    c,                \* processInput: its argument, 0 when no call was made yet
    master_out,       \* bytes passed to write(master_fd_) by the current step
    stdout_out,       \* bytes passed to write(STDOUT_FILENO) by the current step
    sig_sent,         \* signal the main thread passed to kill() in the current step
    shell_read,       \* readShellOutput: outcome of read(master_fd_) in the current iteration
    write_error,      \* a safeWrite call of the current step returned false
    handler_act       \* <<signal, effect>> of handleSignal since the main thread's last step

lifeVars == <<term_mode, restore_count, exit_code, poll_error>>
ptyVars == <<master_fd_, child_pid_, pty_open, child_state>>
lineVars == <<input_buffer_, history_, history_index_, escape_sequence,
              master_line>>
readVars == <<revents_in, bytes_read, i>>
outVars == <<c, master_out, stdout_out, sig_sent, shell_read, write_error>>

vars == <<pc, term_mode, restore_count, exit_code, poll_error, master_fd_,
          child_pid_,
          is_running_, instance_, pty_open, child_state, input_buffer_,
          history_, history_index_, escape_sequence, master_line,
          revents_in, bytes_read,
          i, c, master_out, stdout_out, sig_sent, shell_read, write_error,
          handler_act>>

Init ==
    /\ pc = "configureTerminal"
    /\ term_mode = "original"
    /\ restore_count = 0
    /\ exit_code = -1
    /\ poll_error = FALSE
    /\ master_fd_ = NoFd
    /\ child_pid_ = NoPid
    /\ is_running_ = FALSE
    /\ instance_ = "null"
    /\ pty_open = FALSE
    /\ child_state = "none"
    /\ input_buffer_ = <<>>
    /\ history_ = <<>>
    /\ history_index_ = 0
    /\ escape_sequence = <<>>
    /\ master_line = <<>>
    /\ revents_in = FALSE
    /\ bytes_read = 0
    /\ i = 0
    /\ c = 0
    /\ master_out = <<>>
    /\ stdout_out = <<>>
    /\ sig_sent = "none"
    /\ shell_read = "none"
    /\ write_error = FALSE
    /\ handler_act = <<"none", "none">>

\* the locals of readUserInput are gone once readShellOutput has had its
\* turn, and revents is rewritten by the next poll before it is read again
ResetRead ==
    /\ revents_in' = FALSE
    /\ bytes_read' = 0
    /\ i' = 0

\* no processInput call is in progress and nothing has been written
ResetOut ==
    /\ c' = 0
    /\ master_out' = <<>>
    /\ stdout_out' = <<>>
    /\ sig_sent' = "none"
    /\ shell_read' = "none"
    /\ write_error' = FALSE


(***************************************************************************)
(* The input processor.  Its functions are operators on a record s of the *)
(* members they touch: buf (input_buffer_), hist (history_), idx           *)
(* (history_index_), esc (escape_sequence), run (is_running_), mout and    *)
(* sout (the bytes passed to write on master_fd_ / STDOUT_FILENO), and ret *)
(* (the function's return value).                                          *)
(***************************************************************************)
IsPrefix(s, t) == Len(s) <= Len(t) /\ SubSeq(t, 1, Len(s)) = s

\* safeWrite(fd, buf, count): the bytes reach write(fd, ...); its result is
\* ignored by every caller in the input processor
safeWrite(s, fd, bytes) ==
    IF fd = "master" THEN [s EXCEPT !.mout = @ \o bytes]
                     ELSE [s EXCEPT !.sout = @ \o bytes]

clearLine(s) == safeWrite(s, "stdout", <<CR, ESC, LBracket, KeyK>>)

\* displayHistoryEntry that moves the recalled entry out of History
displayHistoryEntry_takesEntry(s) ==
    LET s1 == safeWrite(clearLine(s), "stdout", <<Dollar, SP>>)
        s2 == IF s.idx < Len(s.hist)
              THEN [s1 EXCEPT !.buf = s.hist[s.idx + 1],
                              !.hist = SubSeq(@, 1, s.idx)
                                          \o SubSeq(@, s.idx + 2, Len(@))]
              ELSE [s1 EXCEPT !.buf = <<>>]
    IN  safeWrite(s2, "stdout", s2.buf)

displayHistoryEntry(s) ==
    LET s1 == safeWrite(clearLine(s), "stdout", <<Dollar, SP>>)
        s2 == [s1 EXCEPT !.buf = IF s.idx < Len(s.hist) THEN s.hist[s.idx + 1]
                                                        ELSE <<>>]
    IN  safeWrite(s2, "stdout", s2.buf)

\* handleArrowKey with the bound of the Down branch forgotten
handleArrowKey_unboundedDown(s, ch) ==
    IF ch = UpKey /\ s.idx > 0
    THEN displayHistoryEntry([s EXCEPT !.idx = @ - 1])
    ELSE IF ch = DownKey
    THEN displayHistoryEntry([s EXCEPT !.idx = @ + 1])
    ELSE s

\* handleArrowKey whose Up branch moves the cursor without redisplaying
handleArrowKey_upNoRedisplay(s, ch) ==
    IF ch = UpKey /\ s.idx > 0
    THEN [s EXCEPT !.idx = @ - 1]
    ELSE IF ch = DownKey
    THEN IF s.idx + 1 < Len(s.hist)
         THEN displayHistoryEntry([s EXCEPT !.idx = @ + 1])
         ELSE displayHistoryEntry([s EXCEPT !.idx = Len(s.hist), !.buf = <<>>])
    ELSE s

handleArrowKey(s, ch) ==
    IF ch = UpKey /\ s.idx > 0
    THEN displayHistoryEntry([s EXCEPT !.idx = @ - 1])
    ELSE IF ch = DownKey
    THEN IF s.idx + 1 < Len(s.hist)
         THEN displayHistoryEntry([s EXCEPT !.idx = @ + 1])
         ELSE displayHistoryEntry([s EXCEPT !.idx = Len(s.hist), !.buf = <<>>])
    ELSE s

\* handleEscapeSequence that does not clear a completed sequence
handleEscapeSequence_keepsCompleted(s, ch) ==
    IF ch = ESC
    THEN [s EXCEPT !.esc = <<ESC>>, !.ret = TRUE]
    ELSE IF s.esc # <<>>
    THEN LET seq == Append(s.esc, ch)
         IN  IF Len(seq) = 2 /\ ch # LBracket
             THEN [safeWrite(s, "master", seq) EXCEPT !.esc = <<>>, !.ret = TRUE]
             ELSE IF Len(seq) = 3
             THEN [safeWrite(handleArrowKey(s, seq[3]), "master", seq)
                      EXCEPT !.esc = seq, !.ret = TRUE]
             ELSE [s EXCEPT !.esc = seq, !.ret = FALSE]
    ELSE [s EXCEPT !.ret = FALSE]

\* ret = TRUE: the byte was consumed by the escape handler
handleEscapeSequence(s, ch) ==
    IF ch = ESC
    THEN [s EXCEPT !.esc = <<ESC>>, !.ret = TRUE]
    ELSE IF s.esc # <<>>
    THEN LET seq == Append(s.esc, ch)
         IN  IF Len(seq) = 2 /\ ch # LBracket
             THEN [safeWrite(s, "master", seq) EXCEPT !.esc = <<>>, !.ret = TRUE]
             ELSE IF Len(seq) = 3
             THEN [safeWrite(handleArrowKey(s, seq[3]), "master", seq)
                      EXCEPT !.esc = <<>>, !.ret = TRUE]
             ELSE [s EXCEPT !.esc = seq, !.ret = FALSE]
    ELSE [s EXCEPT !.ret = FALSE]

\* handleBackspace without its test for the empty buffer
handleBackspace_noEmptyTest(s) ==
    LET s1 == [s EXCEPT !.buf = SubSeq(@, 1, Len(@) - 1)]
        s2 == safeWrite(s1, "stdout", <<BS, SP, BS>>)
    IN  [safeWrite(s2, "master", <<BS>>) EXCEPT !.ret = TRUE]

handleBackspace(s) ==
    IF s.buf = <<>>
    THEN [s EXCEPT !.ret = TRUE]
    ELSE LET s1 == [s EXCEPT !.buf = SubSeq(@, 1, Len(@) - 1)]
             s2 == safeWrite(s1, "stdout", <<BS, SP, BS>>)
         IN  [safeWrite(s2, "master", <<BS>>) EXCEPT !.ret = TRUE]

\* handleEnter that appends to History and leaves the cursor where it was
handleEnter_staleIndex(s) ==
    IF s.buf = ExitLine
    THEN [s EXCEPT !.run = FALSE, !.ret = FALSE]
    ELSE LET s1 == IF s.buf # <<>> THEN [s EXCEPT !.hist = Append(@, s.buf)]
                                   ELSE s
             s2 == [s1 EXCEPT !.buf = <<>>]
             s3 == safeWrite(s2, "master", <<LF>>)
         IN  [safeWrite(s3, "stdout", <<LF>>) EXCEPT !.ret = TRUE]

\* handleEnter that records the line before it looks for "exit"
handleEnter_exitRecorded(s) ==
    LET s1 == IF s.buf # <<>>
              THEN [s EXCEPT !.hist = Append(@, s.buf), !.idx = Len(s.hist) + 1]
              ELSE s
    IN  IF s.buf = ExitLine
        THEN [s1 EXCEPT !.run = FALSE, !.ret = FALSE]
        ELSE LET s2 == [s1 EXCEPT !.buf = <<>>]
                 s3 == safeWrite(s2, "master", <<LF>>)
             IN  [safeWrite(s3, "stdout", <<LF>>) EXCEPT !.ret = TRUE]

\* handleEnter that forwards the newline without echoing it
handleEnter_noEcho(s) ==
    IF s.buf = ExitLine
    THEN [s EXCEPT !.run = FALSE, !.ret = FALSE]
    ELSE LET s1 == IF s.buf # <<>>
                   THEN [s EXCEPT !.hist = Append(@, s.buf),
                                  !.idx = Len(s.hist) + 1]
                   ELSE s
             s2 == [s1 EXCEPT !.buf = <<>>]
         IN  [safeWrite(s2, "master", <<LF>>) EXCEPT !.ret = TRUE]

handleEnter(s) ==
    IF s.buf = ExitLine
    THEN [s EXCEPT !.run = FALSE, !.ret = FALSE]
    ELSE LET s1 == IF s.buf # <<>>
                   THEN [s EXCEPT !.hist = Append(@, s.buf),
                                  !.idx = Len(s.hist) + 1]
                   ELSE s
             s2 == [s1 EXCEPT !.buf = <<>>]
             s3 == safeWrite(s2, "master", <<LF>>)
         IN  [safeWrite(s3, "stdout", <<LF>>) EXCEPT !.ret = TRUE]

\* processInput whose Ctrl+D branch forwards the byte and returns true
processInput_ctrlDContinues(s, ch) ==
    IF ch = CtrlD
    THEN [safeWrite(s, "master", <<ch>>) EXCEPT !.ret = TRUE]
    ELSE IF ch = DEL
    THEN handleBackspace(s)
    ELSE LET e == handleEscapeSequence(s, ch)
         IN  IF e.ret
             THEN e
             ELSE IF ch = CR \/ ch = LF
             THEN handleEnter(e)
             ELSE LET s1 == [e EXCEPT !.buf = Append(@, ch)]
                      s2 == safeWrite(s1, "stdout", <<ch>>)
                  IN  [safeWrite(s2, "master", <<ch>>) EXCEPT !.ret = TRUE]

\* processInput for every byte but Ctrl+C and Ctrl+Z (those call
\* sendSignalToChild, modelled by the SendSignal actions below)
processInput(s, ch) ==
    IF ch = CtrlD
    THEN [safeWrite(s, "master", <<ch>>) EXCEPT !.run = FALSE, !.ret = FALSE]
    ELSE IF ch = DEL
    THEN handleBackspace(s)
    ELSE LET e == handleEscapeSequence(s, ch)
         IN  IF e.ret
             THEN e
             ELSE IF ch = CR \/ ch = LF
             THEN handleEnter(e)
             ELSE LET s1 == [e EXCEPT !.buf = Append(@, ch)]
                      s2 == safeWrite(s1, "stdout", <<ch>>)
                  IN  [safeWrite(s2, "master", <<ch>>) EXCEPT !.ret = TRUE]

\* the members as a record, with nothing written yet
\* the line the child's terminal holds once the bytes passed to
\* safeWrite(master_fd_, ...) are added to it: a newline ends the line, a
\* backspace deletes the character before it
RECURSIVE receivedLine(_, _)
receivedLine(line, bytes) ==
    IF bytes = <<>>
    THEN line
    ELSE LET b == Head(bytes)
             next == IF b = LF THEN <<>>
                     ELSE IF b = BS
                     THEN SubSeq(line, 1, Len(line) - 1)
                     ELSE Append(line, b)
         IN  receivedLine(next, Tail(bytes))

Members ==
    [buf |-> input_buffer_, hist |-> history_, idx |-> history_index_,
     esc |-> escape_sequence, run |-> is_running_, mout |-> <<>>,
     sout |-> <<>>, ret |-> TRUE]

(***************************************************************************)
(* What the user types, within the bounds.                                 *)
(***************************************************************************)
RECURSIVE TotalLen(_)
TotalLen(h) == IF h = <<>> THEN 0 ELSE Len(h[1]) + TotalLen(Tail(h))

\* the byte would be appended to the line buffer
Appends(ch) ==
    /\ ch \notin {CtrlC, CtrlD, CtrlZ, DEL, ESC, CR, LF}
    /\ \/ escape_sequence = <<>>
       \/ escape_sequence = <<ESC>> /\ ch = LBracket

\* the byte would append the line buffer to History
Submits(ch) ==
    /\ ch \in {CR, LF}
    /\ escape_sequence = <<>>
    /\ input_buffer_ # <<>>
    /\ input_buffer_ # ExitLine

\* the ordinary byte the user types as free text; KeyX, KeyI and KeyT are
\* typed to spell "exit", LBracket, UpKey and DownKey after ESC
TextKeys == {KeyE}

\* the number of characters on the line and in History together
Stored == Len(input_buffer_) + TotalLen(history_)

\* the byte may be typed now: free text fits the character budget, a line
\* spelling a prefix of "exit" may always grow, the '[' of an escape
\* sequence (which the code appends to the line) may always land on an
\* empty line, and a line is submitted only while History has room
CanType(ch) ==
    /\ Appends(ch) =>
          IF escape_sequence = <<>>
          THEN \/ IsPrefix(Append(input_buffer_, ch), ExitLine)
               \/ Stored < MaxChars /\ ch \in TextKeys
          ELSE input_buffer_ = <<>> \/ Stored < MaxChars
    /\ Submits(ch) => Len(history_) < MaxHist /\ Stored <= MaxChars

\* the bytes the user types to continue an escape sequence while the
\* master's line is recorded: the final bytes of the arrow keys and one byte
\* that is neither
EscKeys == {LBracket, UpKey, DownKey, KeyE}

\* the byte may be typed now while the master's line is recorded: text and
\* backspaces are typed before the escape sequences of a line, an escape
\* sequence is continued with one of EscKeys, and one that is no arrow key
\* is typed on an empty line
CanTrace(ch) ==
    /\ (escape_sequence = <<>> /\ (Appends(ch) \/ ch = DEL)) =>
          \A k \in 1..Len(master_line) : master_line[k] # ESC
    /\ (escape_sequence # <<>> /\ ch \notin {CtrlC, CtrlD, CtrlZ, DEL, ESC}) =>
          ch \in EscKeys
    /\ (escape_sequence = <<ESC>> /\ ch \in {UpKey, DownKey, KeyE}) =>
          master_line = <<>>
    /\ (escape_sequence = <<ESC, LBracket>> /\ ch \in {LBracket, KeyE}) =>
          master_line = <<LBracket>>

(***************************************************************************)
(* Start-up: main constructs the TerminalEmulator (lines 29-33, 339-347). *)
(***************************************************************************)
NoAct == <<"none", "none">>

\* a step of the main thread: what the handler did before it is forgotten
MainStep == handler_act' = NoAct

\* configureTerminal: tcgetattr or tcsetattr may fail, and then it throws
ConfigureTerminal ==
    /\ pc = "configureTerminal"
    /\ MainStep
    /\ \E ok \in BOOLEAN :
          IF ok THEN term_mode' = "raw" /\ pc' = "setupSignalHandlers"
                ELSE term_mode' = term_mode /\ pc' = "catch"
    /\ UNCHANGED <<restore_count, exit_code, poll_error, ptyVars,
                   is_running_, instance_, lineVars, readVars, outVars>>

SetupSignalHandlers ==
    /\ pc = "setupSignalHandlers"
    /\ MainStep
    /\ instance_' = "this"
    /\ pc' = "initializePty"
    /\ UNCHANGED <<lifeVars, ptyVars, is_running_, lineVars, readVars, outVars>>

\* initializePty: forkpty returns the child's pid, or -1 and it throws
InitializePty ==
    /\ pc = "initializePty"
    /\ MainStep
    /\ \E ok \in BOOLEAN :
          IF ok THEN /\ child_pid_' = ChildPid
                     /\ master_fd_' = MasterFd
                     /\ pty_open' = TRUE
                     /\ child_state' = "running"
                     /\ pc' = "processIO"
                ELSE /\ child_pid_' = NoPid
                     /\ UNCHANGED <<master_fd_, pty_open, child_state>>
                     /\ pc' = "catch"
    /\ UNCHANGED <<lifeVars, is_running_, instance_, lineVars, readVars,
                   outVars>>

\* main's catch clause: the constructor threw, so no object exists and no
\* destructor runs; main returns 1
StartupError ==
    /\ pc = "catch"
    /\ MainStep
    /\ exit_code' = 1
    /\ pc' = "exited"
    /\ UNCHANGED <<term_mode, restore_count, poll_error, ptyVars,
                   is_running_, instance_, lineVars, readVars, outVars>>

(***************************************************************************)
(* The main loop (processIO, readUserInput, readShellOutput).              *)
(***************************************************************************)
\* processIO is left, by return or by the exception run catches; run
\* returns and main leaves the block of terminal, whose destructor runs
\* cleanup.  Nothing reads the line buffer, History, the cursor or the
\* escape accumulator from here on (the members are destroyed when the
\* destructor ends), and nothing is written to the master any more: the
\* model forgets them and the master's line at this point.
LeaveLoop ==
    /\ pc' = "cleanup"
    /\ input_buffer_' = <<>>
    /\ history_' = <<>>
    /\ history_index_' = 0
    /\ escape_sequence' = <<>>
    /\ master_line' = <<>>

\* processIO up to its loop
ProcessIO ==
    /\ pc = "processIO"
    /\ MainStep
    /\ is_running_' = TRUE
    /\ pc' = "loop"
    /\ UNCHANGED <<lifeVars, ptyVars, instance_, lineVars, readVars, outVars>>

\* while (is_running_); when it fails processIO and run return and main
\* leaves the scope of terminal, which runs the destructor
LoopTest ==
    /\ pc = "loop"
    /\ MainStep
    /\ ResetOut
    /\ IF is_running_ THEN pc' = "poll" /\ UNCHANGED lineVars
                      ELSE LeaveLoop
    /\ UNCHANGED <<lifeVars, ptyVars, is_running_, instance_, readVars>>

\* poll(fds, 2, -1): interrupted by a handled signal (EINTR, the loop
\* continues), failed (processIO throws, run catches and returns), or
\* returned.  fds[1].revents is not read before readShellOutput's turn and
\* nothing in between depends on it, so it is drawn there.
Poll ==
    /\ pc = "poll"
    /\ MainStep
    /\ IF handler_act # NoAct
       THEN pc' = "loop" /\ UNCHANGED <<revents_in, lineVars, poll_error>>
       ELSE \/ LeaveLoop /\ poll_error' = TRUE /\ UNCHANGED revents_in
            \/ /\ revents_in' \in BOOLEAN
               /\ pc' = "readUserInput"
               /\ UNCHANGED <<lineVars, poll_error>>
    /\ UNCHANGED <<term_mode, restore_count, exit_code, ptyVars, is_running_,
                   instance_, bytes_read, i, outVars>>

\* readUserInput up to its loop; the bytes of the buffer are drawn when
\* processInput consumes them
ReadUserInput ==
    /\ pc = "readUserInput"
    /\ MainStep
    /\ IF ~revents_in
       THEN pc' = "readShellOutput" /\ UNCHANGED <<bytes_read, i>>
       ELSE \E n \in {-1, 0} \cup (1..MaxRead) :
               /\ bytes_read' = n
               /\ IF n <= 0 THEN pc' = "readShellOutput" /\ i' = i
                            ELSE pc' = "processInput" /\ i' = 0
    /\ UNCHANGED <<lifeVars, ptyVars, is_running_, instance_, lineVars,
                   revents_in, outVars>>

\* the end of one iteration of readUserInput's for loop, processInput
\* having returned ret
NextByte(ret) ==
    IF ret
    THEN /\ i' = i + 1
         /\ pc' = IF i + 1 < bytes_read THEN "processInput" ELSE "readShellOutput"
    ELSE /\ i' = i
         /\ pc' = "readShellOutput"

\* sendSignalToChild(signal) up to waitpid.  kill succeeds while the pid
\* names a process that was not reaped.
SendSignalToChild(signal) ==
    IF child_pid_ <= 0
    THEN /\ sig_sent' = "none"
         /\ NextByte(TRUE)
         /\ UNCHANGED is_running_
    ELSE IF child_state \notin {"running", "zombie"}
    THEN /\ sig_sent' = "none"
         /\ NextByte(FALSE)
         /\ is_running_' = FALSE
    ELSE /\ sig_sent' = signal
         /\ IF signal \in {"SIGINT", "SIGTERM", "SIGKILL"}
            THEN pc' = "sendSignalWait" /\ i' = i
            ELSE NextByte(TRUE)
         /\ UNCHANGED is_running_

\* one iteration of readUserInput's loop: processInput(buffer[i]).  With
\* traced, the step also records what the bytes passed to
\* safeWrite(master_fd_, ...) make of the line the master holds, as long as
\* that line stays within MaxLine bytes.
ProcessInputStep(traced) ==
    /\ pc = "processInput"
    /\ MainStep
    /\ \E ch \in Keys :
          /\ CanType(ch)
          /\ traced => CanTrace(ch)
          /\ c' = ch
          /\ IF ch \in {CtrlC, CtrlZ}
             THEN /\ SendSignalToChild(IF ch = CtrlC THEN "SIGINT" ELSE "SIGTSTP")
                  /\ master_out' = <<>>
                  /\ stdout_out' = <<>>
                  /\ write_error' = FALSE
                  /\ UNCHANGED lineVars
             ELSE LET r == processInput(Members, ch)
                  IN  /\ input_buffer_' = r.buf
                      /\ history_' = r.hist
                      /\ history_index_' = r.idx
                      /\ escape_sequence' = r.esc
                      /\ master_line' = IF traced
                                         THEN receivedLine(master_line, r.mout)
                                         ELSE master_line
                      /\ Len(master_line') <= MaxLine
                      /\ master_out' = r.mout
                      /\ stdout_out' = r.sout
                      /\ sig_sent' = "none"
                      /\ \E failed \in BOOLEAN :
                            write_error' =
                                (failed /\ (r.mout # <<>> \/ r.sout # <<>>))
                      /\ is_running_' = IF r.ret THEN r.run ELSE FALSE
                      /\ NextByte(r.ret)
    /\ UNCHANGED <<lifeVars, ptyVars, instance_, revents_in, bytes_read,
                   shell_read>>

ProcessInput == ProcessInputStep(FALSE)

ProcessInputTraced == ProcessInputStep(TRUE)

\* sendSignalToChild: waitpid(child_pid_, nullptr, 0) returns once the
\* child has exited
SendSignalWait ==
    /\ pc = "sendSignalWait"
    /\ child_state = "zombie"
    /\ MainStep
    /\ child_state' = "reaped"
    /\ pc' = "sendSignalDone"
    /\ UNCHANGED <<lifeVars, master_fd_, child_pid_, pty_open, is_running_,
                   instance_, lineVars, readVars, outVars>>

\* sendSignalToChild: child_pid_ = -1; is_running_ = false; return true
SendSignalDone ==
    /\ pc = "sendSignalDone"
    /\ MainStep
    /\ child_pid_' = NoPid
    /\ is_running_' = FALSE
    /\ NextByte(TRUE)
    /\ UNCHANGED <<lifeVars, master_fd_, pty_open, child_state, instance_,
                   lineVars, revents_in, bytes_read, outVars>>

\* readShellOutput that also drops a partially accumulated escape sequence
ReadShellOutput_dropsEscape ==
    /\ pc = "readShellOutput"
    /\ MainStep
    /\ c' = 0
    /\ master_out' = <<>>
    /\ sig_sent' = "none"
    /\ \E revents_out \in BOOLEAN :
          IF revents_out
          THEN \E n \in {-1, 0, Len(ShellChunk)} :
                  /\ shell_read' = IF n > 0 THEN "data"
                                   ELSE IF n = 0 THEN "eof" ELSE "error"
                  /\ stdout_out' = IF n > 0 THEN ShellChunk ELSE <<>>
                  /\ write_error' \in (IF n > 0 THEN BOOLEAN ELSE {FALSE})
                  /\ escape_sequence' = IF n > 0 THEN <<>> ELSE escape_sequence
          ELSE /\ shell_read' = "none"
               /\ stdout_out' = <<>>
               /\ write_error' = FALSE
               /\ escape_sequence' = escape_sequence
    /\ ResetRead
    /\ pc' = "loop"
    /\ UNCHANGED <<lifeVars, ptyVars, is_running_, instance_, input_buffer_,
                   history_, history_index_, master_line>>

\* if (fds[1].revents & POLLIN) readShellOutput(buffer): read returns -1
\* (an error, or EIO once the child's side is closed), 0 (end of stream) or
\* a chunk, which is passed to safeWrite; the result of safeWrite is ignored
ReadShellOutput ==
    /\ pc = "readShellOutput"
    /\ MainStep
    /\ c' = 0
    /\ master_out' = <<>>
    /\ sig_sent' = "none"
    /\ \E revents_out \in BOOLEAN :
          IF revents_out
          THEN \E n \in {-1, 0, Len(ShellChunk)} :
                  /\ shell_read' = IF n > 0 THEN "data"
                                   ELSE IF n = 0 THEN "eof" ELSE "error"
                  /\ stdout_out' = IF n > 0 THEN ShellChunk ELSE <<>>
                  /\ write_error' \in (IF n > 0 THEN BOOLEAN ELSE {FALSE})
          ELSE /\ shell_read' = "none"
               /\ stdout_out' = <<>>
               /\ write_error' = FALSE
    /\ ResetRead
    /\ pc' = "loop"
    /\ UNCHANGED <<lifeVars, ptyVars, is_running_, instance_, lineVars>>


(***************************************************************************)
(* ~TerminalEmulator: cleanup, one action per statement that touches what  *)
(* the signal handler reads.                                               *)
(***************************************************************************)
\* if (master_fd_ != -1) close(master_fd_)
CleanupClose ==
    /\ pc = "cleanup"
    /\ MainStep
    /\ IF master_fd_ # NoFd
       THEN pty_open' = FALSE /\ pc' = "cleanupFd"
       ELSE pty_open' = pty_open /\ pc' = "cleanupChild"
    /\ UNCHANGED <<lifeVars, master_fd_, child_pid_, child_state, is_running_,
                   instance_, lineVars, readVars, outVars>>

\* master_fd_ = -1
CleanupFd ==
    /\ pc = "cleanupFd"
    /\ MainStep
    /\ master_fd_' = NoFd
    /\ pc' = "cleanupChild"
    /\ UNCHANGED <<lifeVars, child_pid_, pty_open, child_state, is_running_,
                   instance_, lineVars, readVars, outVars>>

\* cleanup that returns early when no child is tracked
CleanupKill_earlyReturn ==
    /\ pc = "cleanupChild"
    /\ MainStep
    /\ IF child_pid_ > 0
       THEN sig_sent' = "SIGTERM" /\ pc' = "cleanupWait"
       ELSE sig_sent' = sig_sent /\ pc' = "return"
    /\ UNCHANGED <<lifeVars, ptyVars, is_running_, instance_, lineVars,
                   readVars, c, master_out, stdout_out, shell_read,
                   write_error>>

\* if (child_pid_ > 0) kill(child_pid_, SIGTERM)
CleanupKill ==
    /\ pc = "cleanupChild"
    /\ MainStep
    /\ IF child_pid_ > 0
       THEN sig_sent' = "SIGTERM" /\ pc' = "cleanupWait"
       ELSE sig_sent' = sig_sent /\ pc' = "restoreTerminal"
    /\ UNCHANGED <<lifeVars, ptyVars, is_running_, instance_, lineVars,
                   readVars, c, master_out, stdout_out, shell_read,
                   write_error>>

\* waitpid(child_pid_, nullptr, 0) returns once the child has exited
CleanupWait ==
    /\ pc = "cleanupWait"
    /\ child_state = "zombie"
    /\ MainStep
    /\ child_state' = "reaped"
    /\ pc' = "cleanupPid"
    /\ UNCHANGED <<lifeVars, master_fd_, child_pid_, pty_open, is_running_,
                   instance_, lineVars, readVars, outVars>>

\* child_pid_ = -1
CleanupPid ==
    /\ pc = "cleanupPid"
    /\ MainStep
    /\ child_pid_' = NoPid
    /\ pc' = "restoreTerminal"
    /\ UNCHANGED <<lifeVars, master_fd_, pty_open, child_state, is_running_,
                   instance_, lineVars, readVars, outVars>>

\* restoreTerminal: tcsetattr with the saved settings; a failure is only
\* reported
RestoreTerminal ==
    /\ pc = "restoreTerminal"
    /\ MainStep
    /\ restore_count' = restore_count + 1
    /\ \E ok \in BOOLEAN : term_mode' = IF ok THEN "original" ELSE term_mode
    /\ pc' = "cleanupInstance"
    /\ UNCHANGED <<exit_code, poll_error, ptyVars, is_running_, instance_,
                   lineVars, readVars, outVars>>

\* instance_ = nullptr, the end of cleanup and of the destructor
CleanupInstance ==
    /\ pc = "cleanupInstance"
    /\ MainStep
    /\ instance_' = "null"
    /\ pc' = "return"
    /\ UNCHANGED <<lifeVars, ptyVars, is_running_, lineVars, readVars, outVars>>

\* main: return 0
MainReturn ==
    /\ pc = "return"
    /\ MainStep
    /\ exit_code' = 0
    /\ pc' = "exited"
    /\ UNCHANGED <<term_mode, restore_count, poll_error, ptyVars,
                   is_running_, instance_, lineVars, readVars, outVars>>

(***************************************************************************)
(* The environment: signals and the child.                                 *)
(***************************************************************************)
Signals == {"SIGWINCH", "SIGINT", "SIGTERM"}

\* where the main thread is when a handled signal arrives.  handleSignal
\* reads instance_, master_fd_ and child_pid_ and writes no member; the main
\* thread writes those three only in the constructor, in sendSignalToChild
\* and in cleanup.  Every position around such a write is listed; within an
\* iteration of the loop a signal finds what it finds at the poll.
SigPoints ==
    {"initializePty", "catch", "processIO", "poll", "sendSignalWait",
     "sendSignalDone",
     "cleanup", "cleanupFd", "cleanupChild", "cleanupWait", "cleanupPid",
     "restoreTerminal", "cleanupInstance", "return"}

\* the object instance_ was set to no longer exists: its constructor threw
\* after setupSignalHandlers, main is in its catch clause and the storage of
\* terminal is out of scope
Destroyed == pc = "catch"

\* handleSignal that forwards without looking at child_pid_
HandleSignal_killsUntracked(sig) ==
    /\ pc \in SigPoints
    /\ ~(pc = "catch" /\ instance_ = "null")
    /\ handler_act = NoAct
    /\ IF instance_ = "null"
       THEN handler_act' = <<sig, "return">>
       ELSE IF sig = "SIGWINCH"
       THEN \E ok \in BOOLEAN :
               handler_act' = <<sig, IF ok THEN "ioctl" ELSE "return">>
       ELSE handler_act' = <<sig, "kill">>
    /\ UNCHANGED <<pc, lifeVars, ptyVars, is_running_, instance_, lineVars,
                   readVars, outVars>>

\* handleSignal(sig), run to its end before the main thread goes on; the
\* handlers are installed by setupSignalHandlers, which configureTerminal's
\* failure skips.  Through a pointer to a destroyed object the reads of
\* master_fd_ and child_pid_ are undefined: the handler may find any value.
HandleSignal(sig) ==
    /\ pc \in SigPoints
    /\ ~(pc = "catch" /\ instance_ = "null")
    /\ handler_act = NoAct
    /\ IF instance_ = "null"
       THEN handler_act' = <<sig, "return">>
       ELSE IF Destroyed
       THEN \E effect \in {IF sig = "SIGWINCH" THEN "ioctl" ELSE "kill", "return"} :
               handler_act' = <<sig, effect>>
       ELSE IF sig = "SIGWINCH"
       THEN \E ok \in BOOLEAN :
               handler_act' = <<sig, IF ok THEN "ioctl" ELSE "return">>
       ELSE IF child_pid_ > 0
       THEN handler_act' = <<sig, "kill">>
       ELSE handler_act' = <<sig, "return">>
    /\ UNCHANGED <<pc, lifeVars, ptyVars, is_running_, instance_, lineVars,
                   readVars, outVars>>

\* the child exits (on its own, on a signal, or on the hang-up of its
\* terminal) and stays a zombie until it is waited for
ChildExit ==
    /\ child_state = "running"
    /\ pc # "exited"
    /\ child_state' = "zombie"
    /\ UNCHANGED <<pc, lifeVars, master_fd_, child_pid_, pty_open, is_running_,
                   instance_, lineVars, readVars, outVars, handler_act>>

Next ==
    \/ ConfigureTerminal
    \/ SetupSignalHandlers
    \/ InitializePty
    \/ StartupError
    \/ ProcessIO
    \/ LoopTest
    \/ Poll
    \/ ReadUserInput
    \/ ProcessInput
    \/ SendSignalWait
    \/ SendSignalDone
    \/ ReadShellOutput
    \/ CleanupClose
    \/ CleanupFd
    \/ CleanupKill
    \/ CleanupWait
    \/ CleanupPid
    \/ RestoreTerminal
    \/ CleanupInstance
    \/ MainReturn
    \/ \E sig \in Signals : HandleSignal(sig)
    \/ ChildExit

Spec == Init /\ [][Next]_vars

\* the same program with the line of the PTY master recorded in master_line
TracedNext ==
    \/ ConfigureTerminal
    \/ SetupSignalHandlers
    \/ InitializePty
    \/ StartupError
    \/ ProcessIO
    \/ LoopTest
    \/ Poll
    \/ ReadUserInput
    \/ ProcessInputTraced
    \/ SendSignalWait
    \/ SendSignalDone
    \/ ReadShellOutput
    \/ CleanupClose
    \/ CleanupFd
    \/ CleanupKill
    \/ CleanupWait
    \/ CleanupPid
    \/ RestoreTerminal
    \/ CleanupInstance
    \/ MainReturn
    \/ \E sig \in Signals : HandleSignal(sig)
    \/ ChildExit

TracedSpec == Init /\ [][TracedNext]_vars


(***************************************************************************)
(* Properties.                                                             *)
(***************************************************************************)
\* forkpty succeeded: the constructor returned and main called run, which
\* started processIO
Started == child_state # "none"

\* the bytes processInput intercepts before the escape handler sees them
Intercepted == {CtrlC, CtrlD, CtrlZ, DEL}

\* C1: in a run whose session was started, restoreTerminal has reapplied the
\* saved settings exactly once when the process exits, however the session
\* ended, and never more than once at any time.
C1_RestoreExactlyOnce ==
    /\ restore_count <= 1
    /\ (pc = "exited" /\ Started) => restore_count = 1

\* a started session has ended and the settings were reapplied once
C1_Witness == pc = "exited" /\ Started /\ restore_count = 1 /\ exit_code = 0

\* C2: when raw mode was entered and forkpty then failed, restoreTerminal
\* has run and the terminal has its original settings by the time the
\* process exits.
C2_RestoredAfterPtyFailure ==
    (pc = "exited" /\ ~Started /\ instance_ = "this") =>
        (restore_count >= 1 /\ term_mode = "original")

\* C3: handleEnter on a non-empty line L other than "exit" appends L to
\* History, sets the cursor to History's new length and empties the line
\* buffer; on an empty line it leaves History unchanged.
C3_SubmitAppendsLine ==
    [][(ProcessInput /\ c' \in {CR, LF} /\ escape_sequence = <<>>) =>
          /\ input_buffer_ = <<>> => history_' = history_
          /\ (input_buffer_ # <<>> /\ input_buffer_ # ExitLine) =>
                /\ history_' = Append(history_, input_buffer_)
                /\ Len(history_') = Len(history_) + 1
                /\ history_'[Len(history_')] = input_buffer_
                /\ history_index_' = Len(history_')
                /\ input_buffer_' = <<>>]_vars

\* a second line has just been submitted
C3_Witness ==
    /\ c \in {CR, LF}
    /\ master_out = <<LF>>
    /\ history_ = <<<<KeyE>>, <<KeyE>>>>
    /\ history_index_ = 2
    /\ input_buffer_ = <<>>

\* C4: the recall cursor is always within [0, history_.size()].
C4_CursorInRange == 0 <= history_index_ /\ history_index_ <= Len(history_)

\* a Down arrow has just been processed with the cursor already at the end
C4_Witness ==
    /\ c = DownKey
    /\ master_out = <<ESC, LBracket, DownKey>>
    /\ Len(history_) = MaxHist
    /\ history_index_ = Len(history_)

\* C5: a completed ESC [ <final> is forwarded to the child as accumulated,
\* and a malformed ESC <byte other than [> is discarded: nothing of it is
\* written to the PTY master.
C5_EscapeFraming ==
    [][ProcessInput =>
          /\ (escape_sequence = <<ESC, LBracket>> /\ c' \notin Intercepted \cup {ESC}) =>
                /\ master_out' = <<ESC, LBracket, c'>>
                /\ escape_sequence' = <<>>
          /\ (escape_sequence = <<ESC>>
                /\ c' \notin Intercepted \cup {ESC, LBracket}) =>
                /\ master_out' = <<>>
                /\ escape_sequence' = <<>>]_vars

\* C6: a Ctrl-C byte processed while the child is tracked sends SIGINT to
\* the child and nothing else: once the byte is processed the line buffer is
\* as it was and the session is still running.
C6_CtrlCKeepsSession ==
    [][/\ (ProcessInput /\ c' = CtrlC /\ child_pid_ > 0) =>
             /\ sig_sent' = "SIGINT"
             /\ UNCHANGED <<lineVars, is_running_>>
       /\ (c = CtrlC /\ pc \in {"sendSignalWait", "sendSignalDone"}) =>
             UNCHANGED <<lineVars, is_running_>>]_vars

C8_CtrlDEndsSession ==
    [][/\ (ProcessInput /\ c' = CtrlD) =>
             /\ master_out' = <<CtrlD>>
             /\ ~is_running_'
             /\ pc' = "readShellOutput"
       /\ (c = CtrlD /\ pc = "readShellOutput") =>
             (pc' \in {"readShellOutput", "loop"} /\ ~is_running_')
       /\ (pc = "loop" /\ ~is_running_) => pc' # "poll"]_vars

\* Ctrl-D has just been processed in the middle of an escape sequence, with
\* a later byte still in the buffer
C8_Witness ==
    /\ c = CtrlD
    /\ master_out = <<CtrlD>>
    /\ escape_sequence = <<ESC, LBracket>>
    /\ i + 1 < bytes_read
    /\ pc = "readShellOutput"
    /\ ~is_running_

\* C9: a backspace byte on an empty line buffer writes nothing to standard
\* output or to the PTY master and changes neither the line buffer, History,
\* the cursor nor the running state.
C9_BackspaceOnEmpty ==
    [][(ProcessInput /\ c' = DEL /\ input_buffer_ = <<>>) =>
          /\ stdout_out' = <<>>
          /\ master_out' = <<>>
          /\ UNCHANGED <<lineVars, is_running_>>]_vars

\* a backspace has just been processed on an empty line while History holds
\* an entry
C9_Witness ==
    /\ c = DEL
    /\ input_buffer_ = <<>>
    /\ master_out = <<>>
    /\ stdout_out = <<>>
    /\ history_ # <<>>
    /\ is_running_

\* C10: when read() on the terminal input returned zero or less, the main
\* loop stops: readUserInput returns with the session no longer running.
C10_EofStopsLoop ==
    (pc = "readShellOutput" /\ revents_in /\ bytes_read <= 0) => ~is_running_

\* C11: once the child has exited on its own and read() on the PTY master
\* reports the end of the stream (a result of zero or less), the main loop
\* stops, so that the session ends without further input.
C11_ChildEofEndsSession ==
    (pc = "loop" /\ child_state = "zombie" /\ shell_read \in {"eof", "error"}) =>
        ~is_running_

\* C12: the exit status is nonzero whenever the process ends on a fatal
\* error (configureTerminal or initializePty threw, or poll failed with an
\* error other than EINTR), and zero only when no fatal error occurred.
C12_ExitStatus ==
    pc = "exited" => ((~Started \/ poll_error) <=> exit_code # 0)

\* what the input processor writes for an ordinary byte or a line end
Forwarded(ch) == IF ch \in {CR, LF} THEN LF ELSE ch

\* C13: with no escape sequence pending, an ordinary byte or a CR/LF that
\* does not submit "exit" is written to the PTY master and echoed to
\* standard output as exactly one byte, itself or LF for CR/LF, and leaves
\* no escape sequence pending; byte by byte, in input order, the two
\* outputs are therefore the input with every CR or LF replaced by LF.
\* (safeWrite is taken to succeed.)
C13_OrdinaryBytesForwarded ==
    [][(/\ ProcessInput
        /\ escape_sequence = <<>>
        /\ c' \notin {CtrlC, CtrlD, CtrlZ, ESC, DEL}
        /\ ~(c' \in {CR, LF} /\ input_buffer_ = ExitLine)
        /\ ~write_error') =>
          /\ master_out' = <<Forwarded(c')>>
          /\ stdout_out' = <<Forwarded(c')>>
          /\ escape_sequence' = <<>>]_vars

\* the line "ex" has just been submitted with CR
C13_Witness ==
    /\ c = CR
    /\ master_out = <<LF>>
    /\ stdout_out = <<LF>>
    /\ ~write_error
    /\ history_ = <<<<KeyE, KeyX>>>>
    /\ input_buffer_ = <<>>

\* C14: readShellOutput, whatever the input processor is in the middle of,
\* passes the bytes read from the PTY master to standard output (and
\* nothing when there are none), writes nothing to the master and leaves
\* the line buffer, History, the recall cursor and the escape accumulator
\* unchanged.
C14_ShellOutputFrame ==
    [][ReadShellOutput =>
          /\ UNCHANGED lineVars
          /\ stdout_out' = IF shell_read' = "data" THEN ShellChunk ELSE <<>>
          /\ master_out' = <<>>]_vars

\* output of the child has just been copied while a recalled line is on
\* display and an escape sequence is half typed
C14_Witness ==
    /\ pc = "loop"
    /\ shell_read = "data"
    /\ stdout_out = ShellChunk
    /\ escape_sequence = <<ESC>>
    /\ input_buffer_ # <<>>
    /\ history_index_ < Len(history_)

\* C15: handleArrowKey, called with the final byte of ESC [ <final>: Up with
\* the cursor above 0 decrements the cursor and makes the line buffer the
\* History entry at the new cursor; Up with the cursor at 0 changes nothing
\* and displays nothing; Down with cursor + 1 below History's length
\* increments the cursor and makes the line buffer that entry; Down
\* otherwise sets the cursor to History's length and empties the line
\* buffer.  History itself is never changed.
C15_ArrowKeyRecall ==
    [][(ProcessInput /\ escape_sequence = <<ESC, LBracket>>
          /\ c' \in {UpKey, DownKey}) =>
          /\ history_' = history_
          /\ (c' = UpKey /\ history_index_ > 0) =>
                /\ history_index_' = history_index_ - 1
                /\ input_buffer_' = history_[history_index_' + 1]
          /\ (c' = UpKey /\ history_index_ = 0) =>
                /\ UNCHANGED <<input_buffer_, history_index_>>
                /\ stdout_out' = <<>>
          /\ (c' = DownKey /\ history_index_ + 1 < Len(history_)) =>
                /\ history_index_' = history_index_ + 1
                /\ input_buffer_' = history_[history_index_' + 1]
          /\ (c' = DownKey /\ ~(history_index_ + 1 < Len(history_))) =>
                /\ history_index_' = Len(history_)
                /\ input_buffer_' = <<>>]_vars

\* a Down arrow has just moved the cursor from the first to the second of
\* two History entries
C15_Witness ==
    /\ c = DownKey
    /\ master_out = <<ESC, LBracket, DownKey>>
    /\ Len(history_) = 2
    /\ history_index_ = 1
    /\ input_buffer_ = history_[2]
    /\ history_[1] # history_[2]

\* C16: handleSignal, run for SIGINT or SIGTERM while instance_ points to
\* the live session, passes that signal to kill(child_pid_) if and only if
\* child_pid_ > 0 and otherwise does nothing; it never changes is_running_
\* or where the main thread is.
C16_HandlerForwardsIffTracked ==
    [][\A sig \in {"SIGINT", "SIGTERM"} :
          (HandleSignal(sig) /\ instance_ = "this" /\ ~Destroyed) =>
              /\ handler_act' =
                     <<sig, IF child_pid_ > 0 THEN "kill" ELSE "return">>
              /\ UNCHANGED <<pc, is_running_, child_pid_>>]_vars

\* SIGTERM has just been forwarded to the tracked child while the main
\* loop waits in poll, and the loop is still running
C16_Witness ==
    /\ handler_act = <<"SIGTERM", "kill">>
    /\ pc = "poll"
    /\ child_pid_ > 0
    /\ instance_ = "this"
    /\ is_running_

\* C17: once a safeWrite to standard output or to the PTY master has failed
\* while echoing, forwarding or copying, the session is over: the step that
\* made the call leaves is_running_ false, so that the main loop stops.
C17_WriteFailureStopsLoop == write_error => ~is_running_

\* C18: the child is reaped by cleanup's waitpid and by nothing else, and
\* has been reaped when a started session exits; cleanup with no child
\* tracked neither signals nor waits, and with master_fd_ already -1 does
\* not close.
C18_ReapedOnceByCleanup ==
    [][/\ (child_state # "reaped" /\ child_state' = "reaped") =>
             pc = "cleanupWait"
       /\ (pc' = "exited" /\ Started) => child_state' = "reaped"
       /\ (CleanupKill /\ child_pid_ <= 0) =>
             (UNCHANGED <<sig_sent, child_state>> /\ pc' = "restoreTerminal")
       /\ (CleanupClose /\ master_fd_ = NoFd) => UNCHANGED pty_open]_vars

\* C19: whenever instance_ is not null, the session object it points to
\* has not been destroyed.
C19_RegistrationValid == instance_ = "this" => ~Destroyed

\* C20: after every step the escape accumulator is empty, ESC, or ESC [ (so
\* that the next byte makes it at most 3 bytes long), and it is empty after
\* the byte that completes a 3-byte sequence and after the byte that
\* abandons a 2-byte one.
C20_EscapeAccumulatorStates ==
    [][/\ escape_sequence' \in {<<>>, <<ESC>>, <<ESC, LBracket>>}
       /\ (ProcessInput /\ c' \notin Intercepted \cup {ESC}
             /\ \/ escape_sequence = <<ESC, LBracket>>
                \/ escape_sequence = <<ESC>> /\ c' # LBracket) =>
             escape_sequence' = <<>>]_vars

\* the sequence ESC [ e has just been completed
C20_Witness ==
    /\ c = KeyE
    /\ master_out = <<ESC, LBracket, KeyE>>
    /\ escape_sequence = <<>>
    /\ pc \in {"processInput", "readShellOutput"}

\* C21: while the session processes input, every step either leaves History
\* as it is or appends exactly one entry, a non-empty line, at its end: no
\* entry is changed, moved or removed, by recall or otherwise, and no entry
\* is empty.  (The step that leaves processIO is excepted: History is not
\* read after it.)
C21_HistoryAppendOnly ==
    [][\/ pc' = "cleanup"
       \/ /\ \/ history_' = history_
             \/ /\ Len(history_') = Len(history_) + 1
                /\ SubSeq(history_', 1, Len(history_)) = history_
          /\ \A k \in 1..Len(history_') : history_'[k] # <<>>]_vars

\* Up has just been pressed a second time, recalling the first of two
\* distinct entries, and both entries are in place
C21_Witness ==
    /\ c = UpKey
    /\ master_out = <<ESC, LBracket, UpKey>>
    /\ Len(history_) = 2
    /\ history_index_ = 0
    /\ input_buffer_ = history_[1]
    /\ history_[1] # history_[2]

\* C22: whenever handleSignal, run on the live session, has passed a signal
\* to kill(child_pid_), the child had not been reaped by waitpid, and
\* whenever it has issued the resize ioctl on master_fd_, the descriptor
\* had not been closed (before forkpty master_fd_ is -1 and names none).
C22_HandlerUsesLiveResources ==
    ~Destroyed =>
        /\ handler_act[2] = "kill" => child_state \in {"running", "zombie"}
        /\ handler_act[2] = "ioctl" => (pty_open \/ master_fd_ = NoFd)

\* C23: the line buffer and the line the child has received agree: whenever
\* handleEnter appends a line L to History, the bytes written to the PTY
\* master since the previously forwarded newline, a forwarded backspace
\* deleting the character before it, spell exactly L, also when History was
\* recalled with Up or Down before Enter.
C23_ChildLineAgrees ==
    [][(ProcessInputTraced /\ history_' # history_) =>
          master_line = input_buffer_]_vars

====
